---- MODULE Spec2Model ----
(***************************************************************************)
(* MemGM: the heartbeat loop of MemGptAgent.get_response                   *)
(* (src/memgpt_agent.py) with the activate_message_mode tool, and the      *)
(* prompt formatter MessagesFormatter (src/mini_memgpt.py).                *)
(*                                                                         *)
(* One turn is split at the head of the `while True` loop: GetResponse is  *)
(* lines 192-215 (everything up to the loop), and every later action is    *)
(* one whole iteration of the loop.  A provider call, with the tool        *)
(* dispatch it performs before it returns, is part of the action that      *)
(* makes the call.                                                         *)
(***************************************************************************)
EXTENDS Integers, Sequences, FiniteSets, TLC

VARIABLES
    pc,              \* "idle": no turn running (control is with the caller); "loop": at the head of `while True`
    log,             \* the EventLog: every event appended so far, in order
    archival,        \* number of entries of the archival store (collection.count())
    flag,            \* messages_formatter.USE_FUNCTION_CALL_END
    messages,        \* llama_cpp_agent.messages, the window handed to the provider
    last_response,   \* llama_cpp_agent.last_response
    query,           \* the local `query` of get_response (line 196)
    result,          \* the local `result` of get_response
    sent,            \* history: the arguments of send_message_to_user in this turn
    calls,           \* history: the provider invocations of this turn, in order
    inbound,         \* history: the message of the running (or last) turn
    turnStart,       \* history: Len(log) when the turn was entered
    turns,           \* history: number of turns entered
    raised,          \* get_response ended with an exception; the caller's read loop
                     \* (mini_memgpt.py, lines 197-199) does not catch it, so no turn follows
    callback_calls,  \* history: what send_message_to_user_callback received in this turn
    console,         \* history: what was printed in this turn
    args,            \* the arguments of MemGptAgent.__init__
    object,          \* the MemGptAgent: the attributes __init__ has set
    formatter,       \* a MessagesFormatter: its attributes
    message_list,    \* the argument of format_messages
    formatted,       \* what format_messages returned
    file,            \* the file save wrote, if any
    loaded           \* what load_from_dict or load_from_file did

vars == <<pc, log, archival, flag, messages, last_response, query, result,
          sent, calls, inbound, turnStart, turns, raised, callback_calls, console,
          args, object, formatter, message_list, formatted, file, loaded>>

\* What a turn leaves alone.
ctorVars == <<args, object>>

fmtVars == <<formatter, message_list, formatted>>

cfgVars == <<file, loaded>>

-----------------------------------------------------------------------------
(* Bounds of the exploration *)

\* The longest EventLog the exploration follows: a step that would make the
\* log longer is not taken.
MaxLog == 9

-----------------------------------------------------------------------------
(* Values *)

None == "None"

NoResult == [kind |-> "none"]

Messages == {"Hello", "Go on"}

MessageModeTool == "activate_message_mode"

Registered == {MessageModeTool, "archival_memory_insert"}

ToolNames == Registered \cup {"nonexistent_tool"}

HeartbeatValues == {"true", "false", None}

PlainText == "I look around."

Prose == "You enter the cave."

MessageModeActivated == "Message mode activated."

Event(type, content) == [type |-> type, content |-> content]

RawCall(fn) == "{" \o fn \o "}"

ReturnValue(fn) == "done: " \o fn

ErrorValue(fn) == "Error: " \o fn

-----------------------------------------------------------------------------
(* The EventLog and the prompt (spec sections 4.1 and 4.5; their code is   *)
(* imported by src/memgpt_agent.py and is not part of src/)                *)

\* EventLog.append: always succeeds, the event is the last of the log.
add_event_to_queue(lg, type, content) == Append(lg, Event(type, content))

\* EventLog.all(): the full history; every append is visible at once.
query_all(lg) == lg

RoleOf(type) ==
    CASE type = "UserMessage" -> "user"
      [] type = "AgentMessage" -> "assistant"
      [] type = "FunctionMessage" -> "function"
      [] OTHER -> "system"

\* The message window rebuilt from the EventLog.
build_event_memory_context(lg) ==
    [i \in 1..Len(lg) |-> [role |-> RoleOf(lg[i].type), content |-> lg[i].content]]

\* The "### Memory" block of sys_prompt2: the two counts it reports.
generate_prompt(imb, ckv) == [imb_count |-> imb, ckv_count |-> ckv]

-----------------------------------------------------------------------------
(* The completion provider and the tool registry                          *)

\* What one tool-constrained generation can produce: plain text, or a call
\* of a tool with the heartbeat the model asked for and whether the
\* dispatch of the call fails.
ToolOutputs ==
    {[kind |-> "text", text |-> PlainText]}
    \cup {o \in [kind : {"call"}, function : ToolNames,
                 heartbeat : HeartbeatValues,
                 fails : BOOLEAN] :
             o.function \notin Registered => o.fails}

AskedHeartbeat(o) == IF o.kind = "text" THEN None ELSE o.heartbeat

\* The raw text of the model's output, as last_response keeps it.
RawOutput(o) == IF o.kind = "text" THEN o.text ELSE RawCall(o.function)

RequestHeartbeatField_kept(fn, h) == h

\* activate_message_mode is registered with add_outer_request_heartbeat_field
\* = False: its result carries no heartbeat, whatever the model asked for.
RequestHeartbeatField(fn, h) == IF fn = MessageModeTool THEN None ELSE h

\* ToolRegistry.dispatch wraps the return value, or the failure, of the call.
ToolValue(o) ==
    IF o.fails THEN ErrorValue(o.function)
    ELSE IF o.function = MessageModeTool THEN MessageModeActivated
    ELSE ReturnValue(o.function)

\* The value get_chat_response returns to get_response.
ResultOf(o) ==
    IF o.kind = "text" THEN [kind |-> "text", text |-> o.text]
    ELSE [kind |-> "call", function |-> o.function, return_value |-> ToolValue(o),
          request_heartbeat |-> RequestHeartbeatField(o.function, o.heartbeat),
          error |-> o.fails]

-----------------------------------------------------------------------------
(* MessagesFormatter (mini_memgpt.py).  A string is a sequence of           *)
(* characters; a marker is its first letter and the line end it has in     *)
(* lines 174-183.                                                          *)

MaxMessages == 2

Whitespace == {" ", "\n"}

RECURSIVE lstrip(_)
lstrip(str) ==
    IF str # <<>> /\ Head(str) \in Whitespace THEN lstrip(Tail(str)) ELSE str

RECURSIVE rstrip(_)
rstrip(str) ==
    IF str # <<>> /\ str[Len(str)] \in Whitespace
    THEN rstrip(SubSeq(str, 1, Len(str) - 1))
    ELSE str

\* str.strip()
strip(str) == rstrip(lstrip(str))

\* str.startswith, for a prefix of one character
startswith(str, c) == str # <<>> /\ str[1] = c

endswith(str, suffix) ==
    /\ Len(str) >= Len(suffix)
    /\ SubSeq(str, Len(str) - Len(suffix) + 1, Len(str)) = suffix

\* MessagesFormatter.__init__, lines 46-63: markers that end with `line_end`.
MessagesFormatter(line_end, include_sys, user_role, strip_prompt) ==
    [PRE_PROMPT |-> <<>>,
     SYS_PROMPT_START |-> <<"S">> \o line_end, SYS_PROMPT_END |-> <<"\n">>,
     USER_PROMPT_START |-> <<"U">> \o line_end, USER_PROMPT_END |-> <<"\n">>,
     ASSISTANT_PROMPT_START |-> <<"A">> \o line_end, ASSISTANT_PROMPT_END |-> <<"\n">>,
     FUNCTION_CALL_PROMPT_START |-> <<"C">> \o line_end,
     FUNCTION_CALL_PROMPT_END |-> <<"\n">>,
     FUNCTION_PROMPT_START |-> <<"R">> \o line_end, FUNCTION_PROMPT_END |-> <<"\n">>,
     DEFAULT_STOP_SEQUENCES |-> <<"###">>,
     INCLUDE_SYS_PROMPT_IN_FIRST_USER_MESSAGE |-> include_sys,
     USE_USER_ROLE_FUNCTION_CALL_RESULT |-> user_role,
     STRIP_PROMPT |-> strip_prompt,
     USE_FUNCTION_CALL_END |-> FALSE]

\* Lines 186-190.
custom_chat_ml_formatter == MessagesFormatter(<<"\n">>, FALSE, FALSE, TRUE)

Formatters ==
    {MessagesFormatter(line_end, include_sys, user_role, strip_prompt) :
        line_end \in {<<>>, <<"\n">>},
        include_sys \in BOOLEAN, user_role \in BOOLEAN, strip_prompt \in BOOLEAN}

\* The parameters of MessagesFormatter.__init__, lines 16-26.
Required ==
    {"PRE_PROMPT", "SYS_PROMPT_START", "SYS_PROMPT_END", "USER_PROMPT_START",
     "USER_PROMPT_END", "ASSISTANT_PROMPT_START", "ASSISTANT_PROMPT_END",
     "FUNCTION_CALL_PROMPT_START", "FUNCTION_CALL_PROMPT_END",
     "INCLUDE_SYS_PROMPT_IN_FIRST_USER_MESSAGE", "DEFAULT_STOP_SEQUENCES"}

Optional ==
    {"USE_USER_ROLE_FUNCTION_CALL_RESULT", "FUNCTION_PROMPT_START",
     "FUNCTION_PROMPT_END", "STRIP_PROMPT"}

Parameters == Required \cup Optional

\* Lines 23-26.
DefaultOf(k) ==
    CASE k = "USE_USER_ROLE_FUNCTION_CALL_RESULT" -> TRUE
      [] k = "STRIP_PROMPT" -> TRUE
      [] OTHER -> <<>>

\* The attributes __init__ sets, lines 46-63.
Attributes == Parameters \cup {"USE_FUNCTION_CALL_END"}

\* as_dict, line 169: self.__dict__, every attribute of the object.
as_dict(f) == [k \in DOMAIN f |-> f[k]]

\* json.dump and json.load, lines 131-132 and 145-146: the members of the
\* dictionary, in the order written; strings, booleans and lists of strings
\* come back as they went in.
json_dump(d) == [written |-> TRUE, members |-> d]

json_load(doc) == doc.members

NoFile == [written |-> FALSE]

NotLoaded == [status |-> "none"]

\* MessagesFormatter(**d), lines 147 and 160: a keyword that is no parameter
\* of __init__, or a required parameter that is missing, is a TypeError.
load_from_dict(d) ==
    IF DOMAIN d \subseteq Parameters /\ Required \subseteq DOMAIN d
    THEN [status |-> "ok",
          formatter |->
              [k \in Attributes |->
                  IF k = "USE_FUNCTION_CALL_END" THEN FALSE
                  ELSE IF k \in DOMAIN d THEN d[k]
                  ELSE DefaultOf(k)]]
    ELSE [status |-> "TypeError"]

Roles == {"system", "user", "assistant", "function"}

Contents == {<<"h", "i">>, <<"{", "}">>, <<" ", "{", "}", "\n">>}

MessageLists ==
    UNION {[1..n -> [role : Roles, content : Contents]] : n \in 0..MaxMessages}

NotFormatted == [prompt |-> <<>>, role |-> None]

IsFunctionCall_unstripped(content) == startswith(content, "{")

\* Line 94.
IsFunctionCall(content) == startswith(strip(content), "{")

\* One pass of the loop of lines 78-108 over `message`.
FormatMessage(f, st, message) ==
    CASE message.role = "system" ->
            LET text == st.formatted_messages \o f.SYS_PROMPT_START \o message.content
                            \o f.SYS_PROMPT_END
            IN  IF f.INCLUDE_SYS_PROMPT_IN_FIRST_USER_MESSAGE
                THEN [formatted_messages |-> f.USER_PROMPT_START \o text,
                      last_role |-> "system", no_user_prompt_start |-> TRUE]
                ELSE [st EXCEPT !.formatted_messages = text, !.last_role = "system"]
      [] message.role = "user" ->
            IF st.no_user_prompt_start
            THEN [formatted_messages |-> st.formatted_messages \o message.content
                                            \o f.USER_PROMPT_END,
                  last_role |-> "user", no_user_prompt_start |-> FALSE]
            ELSE [st EXCEPT !.formatted_messages = @ \o f.USER_PROMPT_START
                                \o message.content \o f.USER_PROMPT_END,
                            !.last_role = "user"]
      [] message.role = "assistant" ->
            LET content == IF f.STRIP_PROMPT THEN strip(message.content)
                           ELSE message.content
            IN  IF IsFunctionCall(content)
                THEN [st EXCEPT !.formatted_messages = @ \o f.FUNCTION_CALL_PROMPT_START
                                    \o content \o f.FUNCTION_CALL_PROMPT_END,
                                !.last_role = "assistant"]
                ELSE [st EXCEPT !.formatted_messages = @ \o f.ASSISTANT_PROMPT_START
                                    \o content \o f.ASSISTANT_PROMPT_END,
                                !.last_role = "assistant"]
      [] message.role = "function" ->
            IF f.USE_USER_ROLE_FUNCTION_CALL_RESULT
            THEN [st EXCEPT !.formatted_messages = @ \o f.USER_PROMPT_START
                                \o message.content \o f.USER_PROMPT_END,
                            !.last_role = "user"]
            ELSE [st EXCEPT !.formatted_messages = @ \o f.FUNCTION_PROMPT_START
                                \o message.content \o f.FUNCTION_PROMPT_END,
                            !.last_role = "function"]
      [] OTHER -> st

\* Lines 75-108: the loop over the first n messages.
RECURSIVE FormatLoop(_, _, _)
FormatLoop(f, ms, n) ==
    IF n = 0
    THEN [formatted_messages |-> f.PRE_PROMPT, last_role |-> "assistant",
          no_user_prompt_start |-> FALSE]
    ELSE FormatMessage(f, FormatLoop(f, ms, n - 1), ms[n])

FunctionCallEnding_verbatim(f) == f.FUNCTION_CALL_PROMPT_START

\* Lines 110-113.
FunctionCallEnding(f) ==
    IF f.STRIP_PROMPT THEN strip(f.FUNCTION_CALL_PROMPT_START)
    ELSE f.FUNCTION_CALL_PROMPT_START

PromptEnding_without_function(f, last_role) ==
    IF f.USE_FUNCTION_CALL_END
    THEN [marker |-> FunctionCallEnding(f), role |-> "assistant"]
    ELSE IF last_role \in {"system", "user"}
    THEN [marker |-> IF f.STRIP_PROMPT THEN strip(f.ASSISTANT_PROMPT_START)
                     ELSE f.ASSISTANT_PROMPT_START,
          role |-> "assistant"]
    ELSE [marker |-> IF f.STRIP_PROMPT THEN strip(f.USER_PROMPT_START)
                     ELSE f.USER_PROMPT_START,
          role |-> "user"]

\* Lines 109-122.
PromptEnding(f, last_role) ==
    IF f.USE_FUNCTION_CALL_END
    THEN [marker |-> FunctionCallEnding(f), role |-> "assistant"]
    ELSE IF last_role \in {"system", "user", "function"}
    THEN [marker |-> IF f.STRIP_PROMPT THEN strip(f.ASSISTANT_PROMPT_START)
                     ELSE f.ASSISTANT_PROMPT_START,
          role |-> "assistant"]
    ELSE [marker |-> IF f.STRIP_PROMPT THEN strip(f.USER_PROMPT_START)
                     ELSE f.USER_PROMPT_START,
          role |-> "user"]

\* MessagesFormatter.format_messages: the pair it returns.
format_messages(f, ms) ==
    LET st == FormatLoop(f, ms, Len(ms))
        ending == PromptEnding(f, st.last_role)
    IN  [prompt |-> st.formatted_messages \o ending.marker, role |-> ending.role]

\* Line 93 writes the stripped content back into the caller's message.
MessagesAfter(f, ms) ==
    [i \in DOMAIN ms |->
        IF ms[i].role = "assistant" /\ f.STRIP_PROMPT
        THEN [ms[i] EXCEPT !.content = strip(@)]
        ELSE ms[i]]

-----------------------------------------------------------------------------
(* MemGptAgent.__init__: the pairing checks and what is created after them *)

Providers ==
    {"Llama", "LlamaLLMSettings", "LlamaCppEndpointSettings", "OpenAIEndpointSettings"}

GenerationSettings ==
    {"LlamaLLMGenerationSettings", "LlamaCppGenerationSettings", "OpenAIGenerationSettings"}

\* Every argument list of __init__ the exploration draws.
ConstructorArgs ==
    [llama_llm : Providers,
     llama_generation_settings : GenerationSettings \cup {None},
     core_memory_file : {None, "core_memory.json"},
     event_queue_file : {None, "event_queue.json"},
     custom_messages_formatter : {None, "custom_chat_ml_formatter"},
     send_message_to_user_callback : {None, "callback"}]

\* Lines 127-133.
DefaultSettings(llm) ==
    IF llm \in {"Llama", "LlamaLLMSettings"} THEN "LlamaLLMGenerationSettings"
    ELSE IF llm = "OpenAIEndpointSettings" THEN "OpenAIGenerationSettings"
    ELSE "LlamaCppGenerationSettings"

EffectiveSettings(a) ==
    IF a.llama_generation_settings = None THEN DefaultSettings(a.llama_llm)
    ELSE a.llama_generation_settings

\* Lines 135-136.
WrongForEndpoint(llm, gs) ==
    gs = "LlamaLLMGenerationSettings" /\ llm = "LlamaCppEndpointSettings"

\* Lines 139-140: `A or B and C` is `A or (B and C)`.
WrongForLlamaCppPython(llm, gs) ==
    llm = "Llama" \/ (llm = "LlamaLLMSettings" /\ gs = "LlamaCppGenerationSettings")

WrongForOpenAI_unchecked(llm, gs) == FALSE

\* Lines 144-145.
WrongForOpenAI(llm, gs) ==
    llm = "OpenAIEndpointSettings" /\ gs # "OpenAIGenerationSettings"

NotConstructed ==
    [status |-> "new", send_message_to_user_callback |-> None,
     llama_generation_settings |-> None, messages_formatter |-> None,
     function_tool_registry |-> FALSE, core_memory |-> None, event_memory |-> None,
     retrieval_memory |-> FALSE]

\* __init__, lines 127-187: the attributes it has set when it returns or raises.
MemGptAgent_init(a) ==
    LET gs == EffectiveSettings(a)
        started == [NotConstructed EXCEPT
                        !.send_message_to_user_callback = a.send_message_to_user_callback]
    IN  IF \/ WrongForEndpoint(a.llama_llm, gs)
           \/ WrongForLlamaCppPython(a.llama_llm, gs)
           \/ WrongForOpenAI(a.llama_llm, gs)
        THEN [started EXCEPT !.status = "raised"]
        ELSE [started EXCEPT
                 !.status = "built",
                 !.llama_generation_settings = gs,
                 !.messages_formatter =
                     IF a.custom_messages_formatter # None THEN "custom" ELSE "predefined",
                 !.function_tool_registry = TRUE,
                 !.core_memory = IF a.core_memory_file # None THEN "file" ELSE "empty",
                 !.event_memory = IF a.event_queue_file # None THEN "file" ELSE "empty",
                 !.retrieval_memory = TRUE]

\* The agent the turns run on: built as mini_memgpt.py builds its agent (lines
\* 172, 192-193), without or with a callback.
RunningArgs ==
    {a \in ConstructorArgs :
        /\ a.llama_llm = "LlamaCppEndpointSettings"
        /\ a.llama_generation_settings = None
        /\ a.core_memory_file = None
        /\ a.event_queue_file = None
        /\ a.custom_messages_formatter = "custom_chat_ml_formatter"}

-----------------------------------------------------------------------------
(* The agent *)

Agent ==
    [log |-> log, archival |-> archival, flag |-> flag, messages |-> messages,
     last_response |-> last_response, sent |-> sent, calls |-> calls,
     send_message_to_user_callback |-> object.send_message_to_user_callback,
     callback_calls |-> callback_calls, console |-> console]

\* What the history keeps of one provider invocation: the prompt and the
\* window it was given, the length of the EventLog and the formatter flag at
\* that moment, what came back, and the heartbeat the model asked for.
CallRecord(mode, a, prompt, out, asked) ==
    [mode |-> mode, prompt |-> prompt, window |-> a.messages, at |-> Len(a.log),
     flag |-> a.flag, out |-> out, asked |-> asked]

send_message_to_user_both(a, message) ==
    [a EXCEPT !.sent = Append(@, message),
              !.callback_calls = Append(@, message),
              !.console = Append(@, message)]

\* Lines 260-263.
send_message_to_user(a, message) ==
    IF a.send_message_to_user_callback # None
    THEN [a EXCEPT !.sent = Append(@, message), !.callback_calls = Append(@, message)]
    ELSE [a EXCEPT !.sent = Append(@, message), !.console = Append(@, message)]

\* The nested, free-form generation of line 100: it either returns prose,
\* which becomes last_response, or raises.
get_chat_response_free(a, prompt, fails) ==
    IF fails
    THEN [a EXCEPT !.calls = Append(@, CallRecord("free", a, prompt, [kind |-> "error"], None))]
    ELSE [a EXCEPT !.calls = Append(@, CallRecord("free", a, prompt,
                                                   [kind |-> "text", text |-> Prose], None)),
                   !.last_response = Prose]

activate_message_mode_run_silent(a, fails) ==
    LET lg1 == add_event_to_queue(a.log, "AgentMessage", a.last_response)
        lg2 == add_event_to_queue(lg1, "FunctionMessage", MessageModeActivated)
        a1 == [a EXCEPT !.flag = FALSE, !.log = lg2,
                        !.messages = build_event_memory_context(lg2)]
        prompt == generate_prompt(Len(query_all(lg2)), a1.archival)
    IN  get_chat_response_free(a1, prompt, fails)

\* activate_message_mode.run: lines 83-112.  When the nested generation
\* raises, the lines after it do not run.
activate_message_mode_run(a, fails) ==
    LET lg1 == add_event_to_queue(a.log, "AgentMessage", a.last_response)
        lg2 == add_event_to_queue(lg1, "FunctionMessage", MessageModeActivated)
        a1 == [a EXCEPT !.flag = FALSE, !.log = lg2,
                        !.messages = build_event_memory_context(lg2)]
        prompt == generate_prompt(Len(query_all(lg2)), a1.archival)
        a2 == get_chat_response_free(a1, prompt, fails)
    IN  IF fails THEN a2 ELSE send_message_to_user(a2, a2.last_response)

\* The effect of dispatching the call `o` on the agent.
Dispatch(a, o) ==
    IF o.kind = "text" \/ o.function \notin Registered THEN a
    ELSE IF o.function = MessageModeTool THEN activate_message_mode_run(a, o.fails)
    ELSE IF o.fails THEN a
    ELSE [a EXCEPT !.archival = @ + 1]

\* One tool-constrained generation (lines 206-213 and 238-245): the raw
\* output becomes last_response, then the call is dispatched.
get_chat_response(a, prompt, o) ==
    Dispatch([a EXCEPT !.last_response = RawOutput(o),
                       !.calls = Append(@, CallRecord("tool", a, prompt, ResultOf(o),
                                                      AskedHeartbeat(o)))],
             o)

\* A tool-constrained generation in which the provider itself fails: the
\* invocation is made and raises, nothing is dispatched.
provider_raises(a, prompt) ==
    [a EXCEPT !.calls = Append(@, CallRecord("tool", a, prompt, [kind |-> "error"], None))]

FailedGeneration_retried(a, prompt) == provider_raises(provider_raises(a, prompt), prompt)

\* Lines 206-213 and 238-245 stand in no try block and no retry loop: the one
\* invocation that raises ends get_response.
FailedGeneration(a, prompt) == provider_raises(a, prompt)

ToolCalls(cs) == {i \in DOMAIN cs : cs[i].mode = "tool"}

FreeCalls(cs) == {i \in DOMAIN cs : cs[i].mode = "free"}

LastToolCall == CHOOSE i \in ToolCalls(calls) : \A j \in ToolCalls(calls) : j <= i

TurnEntry_forgotten(lg, message) == lg

\* Line 193: the inbound message is appended as a UserMessage event.
TurnEntry(lg, message) == add_event_to_queue(lg, "UserMessage", message)

FirstWindow_early(before, after) == build_event_memory_context(before)

\* Line 194: the window is built after the append.
FirstWindow(before, after) == build_event_memory_context(after)

HeartbeatRequested_capped(r) ==
    r.kind = "call" /\ r.request_heartbeat = "true" /\ Cardinality(ToolCalls(calls)) < 3

HeartbeatRequested_truthy(r) == r.kind = "call" /\ r.request_heartbeat # "false"

\* Line 226.
HeartbeatRequested(r) ==
    r.kind = "call" /\ r.request_heartbeat # None /\ r.request_heartbeat = "true"

LoopRecord_always(lg, r) ==
    IF r.kind = "call"
    THEN add_event_to_queue(lg, "FunctionMessage", r.return_value)
    ELSE add_event_to_queue(lg, "FunctionMessage", r.text)

\* Lines 218-225: the FunctionMessage event of the loop.
LoopRecord(lg, r) ==
    IF r.kind = "call"
    THEN IF r.function # MessageModeTool
         THEN add_event_to_queue(lg, "FunctionMessage", r.return_value)
         ELSE lg
    ELSE add_event_to_queue(lg, "FunctionMessage", r.text)

HandleCall_forward(a, r) ==
    send_message_to_user([a EXCEPT !.log = LoopRecord(a.log, r)], r.return_value)

\* What an iteration does with a structured result before it looks at the
\* heartbeat: lines 218-223.
HandleCall(a, r) == [a EXCEPT !.log = LoopRecord(a.log, r)]

LoopWindow_stale(lg) == build_event_memory_context(SubSeq(lg, 1, Len(lg) - 1))

\* Lines 227-229: the window of a heartbeat re-generation.
LoopWindow(lg) == build_event_memory_context(lg)

TurnFlag_kept(f) == f

\* Line 192.
TurnFlag(f) == TRUE

HandleText_forward(a, r) ==
    send_message_to_user(
        [a EXCEPT !.log = add_event_to_queue(LoopRecord(a.log, r), "FunctionMessage", r.text)],
        r.text)

\* What an iteration does with a plain-text result: the FunctionMessage
\* event of lines 224-225 and the second one of lines 250-251.
HandleText(a, r) ==
    [a EXCEPT !.log = add_event_to_queue(LoopRecord(a.log, r), "FunctionMessage", r.text)]

Install(a) ==
    /\ archival' = a.archival
    /\ flag' = a.flag
    /\ messages' = a.messages
    /\ last_response' = a.last_response
    /\ sent' = a.sent
    /\ calls' = a.calls
    /\ callback_calls' = a.callback_calls
    /\ console' = a.console

-----------------------------------------------------------------------------
(* Actions *)

Init ==
    /\ pc = "idle"
    /\ log = <<>>
    /\ archival = 0
    /\ flag = FALSE
    /\ messages = <<>>
    /\ last_response = ""
    /\ query = <<>>
    /\ result = NoResult
    /\ sent = <<>>
    /\ calls = <<>>
    /\ inbound = ""
    /\ turnStart = 0
    /\ turns = 0
    /\ raised = FALSE
    /\ callback_calls = <<>>
    /\ console = <<>>
    /\ args \in RunningArgs
    /\ object = MemGptAgent_init(args)
    /\ formatter = custom_chat_ml_formatter
    /\ message_list = <<>>
    /\ formatted = NotFormatted
    /\ file = NoFile
    /\ loaded = NotLoaded

\* get_response up to the loop: lines 192-215.
GetResponse(message, o) ==
    /\ pc = "idle"
    /\ ~raised
    /\ LET lg1 == TurnEntry(log, message)
           q == query_all(lg1)
           a == get_chat_response(
                    [Agent EXCEPT !.flag = TurnFlag(flag), !.log = lg1,
                                  !.messages = FirstWindow(log, lg1),
                                  !.sent = <<>>, !.calls = <<>>,
                                  !.callback_calls = <<>>, !.console = <<>>],
                    generate_prompt(Len(q), archival), o)
       IN  /\ Install(a)
           /\ log' = add_event_to_queue(a.log, "AgentMessage", a.last_response)
           /\ query' = q
    /\ result' = ResultOf(o)
    /\ pc' = "loop"
    /\ inbound' = message
    /\ turnStart' = Len(log)
    /\ turns' = turns + 1
    /\ raised' = FALSE
    /\ Len(log') <= MaxLog
    /\ UNCHANGED <<ctorVars, fmtVars, cfgVars>>

\* get_response when the first generation raises: lines 192-206.
GetResponseRaises(message) ==
    /\ pc = "idle"
    /\ ~raised
    /\ LET lg1 == TurnEntry(log, message)
           q == query_all(lg1)
           a == FailedGeneration(
                    [Agent EXCEPT !.flag = TurnFlag(flag), !.log = lg1,
                                  !.messages = FirstWindow(log, lg1),
                                  !.sent = <<>>, !.calls = <<>>,
                                  !.callback_calls = <<>>, !.console = <<>>],
                    generate_prompt(Len(q), archival))
       IN  /\ Install(a)
           /\ log' = a.log
    /\ query' = <<>>
    /\ result' = NoResult
    /\ pc' = "idle"
    /\ inbound' = message
    /\ turnStart' = Len(log)
    /\ turns' = turns + 1
    /\ raised' = TRUE
    /\ Len(log') <= MaxLog
    /\ UNCHANGED <<ctorVars, fmtVars, cfgVars>>

\* An iteration that takes the heartbeat branch: lines 218-247.
LoopHeartbeat(o) ==
    /\ pc = "loop"
    /\ HeartbeatRequested(result)
    /\ LET a1 == HandleCall(Agent, result)
           a == get_chat_response(
                    [a1 EXCEPT !.messages = LoopWindow(a1.log)],
                    generate_prompt(Len(query), archival), o)
       IN  /\ Install(a)
           /\ log' = add_event_to_queue(a.log, "AgentMessage", a.last_response)
    /\ result' = ResultOf(o)
    /\ Len(log') <= MaxLog
    /\ UNCHANGED <<pc, query, inbound, turnStart, turns, raised, ctorVars, fmtVars, cfgVars>>

\* An iteration whose re-generation raises: lines 218-238.
LoopHeartbeatRaises ==
    /\ pc = "loop"
    /\ HeartbeatRequested(result)
    /\ LET a1 == HandleCall(Agent, result)
           a == FailedGeneration(
                    [a1 EXCEPT !.messages = LoopWindow(a1.log)],
                    generate_prompt(Len(query), archival))
       IN  /\ Install(a)
           /\ log' = a.log
    /\ Len(log') <= MaxLog
    /\ pc' = "idle"
    /\ result' = NoResult
    /\ query' = <<>>
    /\ raised' = TRUE
    /\ UNCHANGED <<inbound, turnStart, turns, ctorVars, fmtVars, cfgVars>>

\* An iteration that leaves the loop: lines 218-226, 248-249.
LoopBreak ==
    /\ pc = "loop"
    /\ ~HeartbeatRequested(result)
    /\ result.kind = "call"
    /\ LET a == HandleCall(Agent, result)
       IN  /\ Install(a)
           /\ log' = a.log
    /\ Len(log') <= MaxLog
    /\ pc' = "idle"
    /\ result' = NoResult
    /\ query' = <<>>
    /\ UNCHANGED <<inbound, turnStart, turns, raised, ctorVars, fmtVars, cfgVars>>

\* An iteration on a plain-text result: lines 218, 224-226, 248, 250-251.
\* Nothing in it changes `result`, so the next iteration is the same.
LoopText ==
    /\ pc = "loop"
    /\ ~HeartbeatRequested(result)
    /\ result.kind # "call"
    /\ LET a == HandleText(Agent, result)
       IN  /\ Install(a)
           /\ log' = a.log
    /\ Len(log') <= MaxLog
    /\ UNCHANGED <<pc, query, result, inbound, turnStart, turns, raised, ctorVars, fmtVars, cfgVars>>

Next ==
    \/ \E message \in Messages, o \in ToolOutputs : GetResponse(message, o)
    \/ \E message \in Messages : GetResponseRaises(message)
    \/ \E o \in ToolOutputs : LoopHeartbeat(o)
    \/ LoopHeartbeatRaises
    \/ LoopBreak
    \/ LoopText

Spec == Init /\ [][Next]_vars

-----------------------------------------------------------------------------
(* Construction on its own: every argument list, one call of __init__ *)

CtorInit ==
    /\ pc = "new"
    /\ log = <<>>
    /\ archival = 0
    /\ flag = FALSE
    /\ messages = <<>>
    /\ last_response = ""
    /\ query = <<>>
    /\ result = NoResult
    /\ sent = <<>>
    /\ calls = <<>>
    /\ inbound = ""
    /\ turnStart = 0
    /\ turns = 0
    /\ raised = FALSE
    /\ callback_calls = <<>>
    /\ console = <<>>
    /\ args \in ConstructorArgs
    /\ object = NotConstructed
    /\ formatter = custom_chat_ml_formatter
    /\ message_list = <<>>
    /\ formatted = NotFormatted
    /\ file = NoFile
    /\ loaded = NotLoaded

\* MemGptAgent(...): the call returns the agent, or raises and leaves none.
Construct ==
    /\ pc = "new"
    /\ object' = MemGptAgent_init(args)
    /\ pc' = IF object'.status = "raised" THEN "failed" ELSE "idle"
    /\ UNCHANGED <<log, archival, flag, messages, last_response, query, result,
                   sent, calls, inbound, turnStart, turns, raised, callback_calls,
                   console, args, fmtVars, cfgVars>>

CtorNext == Construct

CtorSpec == CtorInit /\ [][CtorNext]_vars

-----------------------------------------------------------------------------
(* The formatter on its own: every configuration, every short message list *)

FmtInit ==
    /\ pc = "ready"
    /\ log = <<>>
    /\ archival = 0
    /\ flag = FALSE
    /\ messages = <<>>
    /\ last_response = ""
    /\ query = <<>>
    /\ result = NoResult
    /\ sent = <<>>
    /\ calls = <<>>
    /\ inbound = ""
    /\ turnStart = 0
    /\ turns = 0
    /\ raised = FALSE
    /\ callback_calls = <<>>
    /\ console = <<>>
    /\ args \in RunningArgs
    /\ object = MemGptAgent_init(args)
    /\ formatter \in Formatters
    /\ message_list \in MessageLists
    /\ formatted = NotFormatted
    /\ file = NoFile
    /\ loaded = NotLoaded

\* The assignments of memgpt_agent.py, lines 83 and 192.
SetUseFunctionCallEnd(b) ==
    /\ pc = "ready"
    /\ formatter.USE_FUNCTION_CALL_END # b
    /\ formatter' = [formatter EXCEPT !.USE_FUNCTION_CALL_END = b]
    /\ UNCHANGED <<pc, log, archival, flag, messages, last_response, query, result,
                   sent, calls, inbound, turnStart, turns, raised, callback_calls,
                   console, ctorVars, message_list, formatted, cfgVars>>

\* One call of format_messages.
FormatMessages ==
    /\ pc = "ready"
    /\ formatted' = format_messages(formatter, message_list)
    /\ message_list' = MessagesAfter(formatter, message_list)
    /\ pc' = "formatted"
    /\ UNCHANGED <<log, archival, flag, messages, last_response, query, result,
                   sent, calls, inbound, turnStart, turns, raised, callback_calls,
                   console, ctorVars, formatter, cfgVars>>

FmtNext ==
    \/ \E b \in BOOLEAN : SetUseFunctionCallEnd(b)
    \/ FormatMessages

FmtSpec == FmtInit /\ [][FmtNext]_vars

-----------------------------------------------------------------------------
(* The formatter's configuration: saved, and loaded again *)

CfgInit ==
    /\ pc = "ready"
    /\ log = <<>>
    /\ archival = 0
    /\ flag = FALSE
    /\ messages = <<>>
    /\ last_response = ""
    /\ query = <<>>
    /\ result = NoResult
    /\ sent = <<>>
    /\ calls = <<>>
    /\ inbound = ""
    /\ turnStart = 0
    /\ turns = 0
    /\ raised = FALSE
    /\ callback_calls = <<>>
    /\ console = <<>>
    /\ args \in RunningArgs
    /\ object = MemGptAgent_init(args)
    /\ formatter \in Formatters
    /\ message_list = <<>>
    /\ formatted = NotFormatted
    /\ file = NoFile
    /\ loaded = NotLoaded

\* save, lines 124-132.
Save ==
    /\ pc = "ready"
    /\ ~file.written
    /\ file' = json_dump(as_dict(formatter))
    /\ UNCHANGED <<pc, log, archival, flag, messages, last_response, query, result,
                   sent, calls, inbound, turnStart, turns, raised, callback_calls,
                   console, ctorVars, fmtVars, loaded>>

\* load_from_file, lines 134-147, of the file save wrote.
LoadFromFile ==
    /\ pc = "ready"
    /\ file.written
    /\ loaded' = load_from_dict(json_load(file))
    /\ pc' = "loaded"
    /\ UNCHANGED <<log, archival, flag, messages, last_response, query, result,
                   sent, calls, inbound, turnStart, turns, raised, callback_calls,
                   console, ctorVars, fmtVars, file>>

\* load_from_dict(f.as_dict()), lines 149-160.
LoadFromDict ==
    /\ pc = "ready"
    /\ loaded' = load_from_dict(as_dict(formatter))
    /\ pc' = "loaded"
    /\ UNCHANGED <<log, archival, flag, messages, last_response, query, result,
                   sent, calls, inbound, turnStart, turns, raised, callback_calls,
                   console, ctorVars, fmtVars, file>>

CfgNext ==
    \/ \E b \in BOOLEAN : SetUseFunctionCallEnd(b)
    \/ Save
    \/ LoadFromFile
    \/ LoadFromDict

CfgSpec == CfgInit /\ [][CfgNext]_vars


-----------------------------------------------------------------------------
(* Vocabulary of the properties *)

ToolRounds == Cardinality(ToolCalls(calls))

TrueHeartbeat(r) == r.kind = "call" /\ r.request_heartbeat = "true"

IsMessageModeCall(c) ==
    c.mode = "tool" /\ c.out.kind = "call" /\ c.out.function = MessageModeTool

Occurrences(seq, x) == Cardinality({k \in DOMAIN seq : seq[k] = x})

\* The events of the running turn are log[turnStart + 1 .. Len(log)].
TurnPositions == (turnStart + 1)..Len(log)

\* Round i (a tool-constrained generation) owns the events from its
\* invocation to the next tool-constrained generation.
LaterToolCalls(i) == {j \in ToolCalls(calls) : j > i}

RoundEnd(i) ==
    IF LaterToolCalls(i) = {} THEN Len(log)
    ELSE calls[CHOOSE j \in LaterToolCalls(i) : \A k \in LaterToolCalls(i) : j <= k].at

RoundEvents(i) == SubSeq(log, calls[i].at + 1, RoundEnd(i))

RoundOver(i) == LaterToolCalls(i) # {} \/ pc = "idle"

FunctionEvents(ev) == {k \in DOMAIN ev : ev[k].type = "FunctionMessage"}

RawOf(out) == IF out.kind = "text" THEN out.text ELSE RawCall(out.function)

ValueOf(out) == IF out.kind = "text" THEN out.text ELSE out.return_value

-----------------------------------------------------------------------------
(* Properties *)

\* C1: a loop iteration on a structured result continues with exactly one
\* more tool-constrained generation when the result carries
\* request_heartbeat = true (staying in the loop unless the provider itself
\* raises), and otherwise returns control without another
\* generation; so when the Nth result is the first whose heartbeat is false or
\* None, exactly N rounds were performed (all N-1 before it carried true).
C1_HeartbeatChain ==
    [][(pc = "loop" /\ result.kind = "call") =>
          IF result.request_heartbeat = "true"
          THEN /\ pc' = "loop" \/ raised'
               /\ Cardinality(ToolCalls(calls')) = ToolRounds + 1
          ELSE /\ pc' = "idle"
               /\ calls' = calls
               /\ calls[LastToolCall].out = result
               /\ \A i \in ToolCalls(calls) :
                      i # LastToolCall => TrueHeartbeat(calls[i].out)]_vars

C1_Witness ==
    /\ pc = "idle"
    /\ ToolRounds = 3
    /\ \A i \in ToolCalls(calls) : i # LastToolCall => TrueHeartbeat(calls[i].out)
    /\ calls[LastToolCall].out.kind = "call"
    /\ calls[LastToolCall].out.function # MessageModeTool
    /\ calls[LastToolCall].out.request_heartbeat = None

\* C2 (as claimed): a loop iteration on a result that carries no true
\* heartbeat request, a structured one or plain text, returns control to the
\* caller.
C2_NoHeartbeatReturns ==
    [][(pc = "loop" /\ ~TrueHeartbeat(result)) => pc' = "idle"]_vars

\* C3: a dispatch of activate_message_mode is followed by exactly one nested
\* free-form generation, which is the last provider invocation of the turn,
\* and the next loop iteration returns control; this whatever heartbeat the
\* model asked for in the call.
C3_MessageModeYields ==
    [][/\ \A i \in DOMAIN calls' :
              IsMessageModeCall(calls'[i]) =>
                  Len(calls') = i + 1 /\ calls'[i + 1].mode = "free"
       /\ Cardinality(FreeCalls(calls'))
              = Cardinality({i \in DOMAIN calls' : IsMessageModeCall(calls'[i])})
       /\ (pc = "loop" /\ result.kind = "call" /\ result.function = MessageModeTool)
              => (pc' = "idle" /\ calls' = calls)]_vars

C3_Witness ==
    /\ pc = "idle"
    /\ ToolRounds = 2
    /\ Len(calls) = 3
    /\ IsMessageModeCall(calls[2])
    /\ calls[2].asked = "true"
    /\ calls[3].mode = "free"

\* C4 (as claimed): every prompt handed to the provider reports a recall
\* count equal to the number of events in the EventLog when it was rendered.
C4_RecallCountFresh ==
    \A i \in DOMAIN calls : calls[i].prompt.imb_count = calls[i].at

\* C5 (as claimed): in a first turn with message "Hello" the first prompt
\* reports recall count 0 and archival count 0, the UserMessage event is in
\* the log, and the first invocation is tool-constrained with nothing
\* dispatched before it.
C5_FirstPromptCountsZero ==
    (turns = 1 /\ inbound = "Hello") =>
        /\ log[1] = Event("UserMessage", "Hello")
        /\ calls[1].mode = "tool"
        /\ calls[1].at = 1
        /\ calls[1].prompt = [imb_count |-> 0, ckv_count |-> 0]

\* C5 (amended): the same, with recall count 1: the UserMessage event just
\* appended is counted.
C5_FirstPromptCountsOne ==
    (turns = 1 /\ inbound = "Hello") =>
        /\ log[1] = Event("UserMessage", "Hello")
        /\ calls[1].mode = "tool"
        /\ calls[1].at = 1
        /\ calls[1].prompt = [imb_count |-> 1, ckv_count |-> 0]

C5_Witness ==
    /\ turns = 1
    /\ inbound = "Hello"
    /\ turnStart = 0
    /\ pc = "loop"
    /\ Len(calls) = 1
    /\ calls[1].prompt.imb_count = 1
    /\ calls[1].prompt.ckv_count = 0

\* C6 (as claimed): every generation round in which the provider returned puts into the EventLog one
\* AgentMessage event with the raw output and then exactly one
\* FunctionMessage event with the tool's return value (the raw text for a
\* plain-text response): never more than one, and exactly one once the next
\* round has begun or the turn has yielded.
C6_OneFunctionMessagePerRound ==
    \A i \in {j \in ToolCalls(calls) : calls[j].out.kind # "error"} :
        LET ev == RoundEvents(i)
            fm == FunctionEvents(ev)
        IN  /\ Cardinality(fm) <= 1
            /\ RoundOver(i) =>
                   /\ Cardinality(fm) = 1
                   /\ \A k \in fm :
                          /\ \E j \in 1..(k - 1) :
                                 ev[j] = Event("AgentMessage", RawOf(calls[i].out))
                          /\ (calls[i].out.kind = "call" /\ calls[i].out.error)
                                 \/ ev[k].content = ValueOf(calls[i].out)

\* C7 (as claimed): once the loop has handled a plain-text response (its
\* FunctionMessage event is in the log), the text has been passed to
\* send_message_to_user.
C7_PlainTextForwarded ==
    \A i \in ToolCalls(calls) :
        (calls[i].out.kind = "text" /\ FunctionEvents(RoundEvents(i)) # {})
            => Occurrences(sent, calls[i].out.text) >= 1

\* C7 (amended): a plain-text response is never passed to
\* send_message_to_user; the loop records it as FunctionMessage events only.
C7_PlainTextNotForwarded ==
    \A i \in ToolCalls(calls) :
        calls[i].out.kind = "text" =>
            /\ Occurrences(sent, calls[i].out.text) = 0
            /\ \A k \in DOMAIN RoundEvents(i) :
                   k > 1 => RoundEvents(i)[k] = Event("FunctionMessage", calls[i].out.text)

C7_Witness ==
    /\ pc = "loop"
    /\ result.kind = "text"
    /\ sent = <<>>
    /\ Cardinality(FunctionEvents(RoundEvents(LastToolCall))) = 2

\* C8: the first event of a turn is the UserMessage event of the inbound
\* message, the turn holds no other UserMessage event, and the first provider
\* invocation comes right after that append with a window whose last entry is
\* the inbound message.
C8_UserMessageFirst ==
    turns > 0 =>
        /\ log[turnStart + 1] = Event("UserMessage", inbound)
        /\ Cardinality({k \in TurnPositions : log[k].type = "UserMessage"}) = 1
        /\ calls # <<>>
        /\ calls[1].mode = "tool"
        /\ calls[1].at = turnStart + 1
        /\ Len(calls[1].window) = turnStart + 1
        /\ calls[1].window[turnStart + 1] = [role |-> "user", content |-> inbound]

C8_Witness ==
    /\ turns = 2
    /\ turnStart > 0
    /\ inbound = "Go on"
    /\ pc = "loop"
    /\ calls[1].window[Len(calls[1].window)] = [role |-> "user", content |-> "Go on"]

\* C9: the prose of the nested generation is passed to send_message_to_user
\* exactly once and is an AgentMessage event of the running turn; every
\* message sent to the user in the turn is an AgentMessage event of the turn.
C9_ProseSentAndRecorded ==
    /\ \A i \in FreeCalls(calls) :
           calls[i].out.kind = "text" =>
               /\ Occurrences(sent, calls[i].out.text) = 1
               /\ \E k \in TurnPositions :
                      log[k] = Event("AgentMessage", calls[i].out.text)
    /\ \A m \in DOMAIN sent :
           \E k \in TurnPositions : log[k] = Event("AgentMessage", sent[m])

C9_Witness ==
    /\ pc = "idle"
    /\ sent = <<Prose>>
    /\ log[Len(log)] = Event("AgentMessage", Prose)
    /\ \E i \in FreeCalls(calls) : calls[i].out.kind = "text"

\* C10 (as claimed): once the loop has handled a tool call whose dispatch
\* failed, the failure is in the EventLog as a FunctionMessage event of that
\* round.
C10_FailureCaptured ==
    \A i \in ToolCalls(calls) :
        (calls[i].out.kind = "call" /\ calls[i].out.error /\ RoundOver(i)) =>
            \E k \in DOMAIN RoundEvents(i) :
                RoundEvents(i)[k] = Event("FunctionMessage", calls[i].out.return_value)

FailedToolCalls(cs) == {i \in ToolCalls(cs) : cs[i].out.kind = "error"}

\* C11 (as claimed): when get_response ends with the provider's failure, the
\* failing generation had been retried once: the last two invocations are
\* tool-constrained generations that both failed.
C11_RetriedOnce ==
    raised =>
        /\ Len(calls) >= 2
        /\ {Len(calls) - 1, Len(calls)} \subseteq FailedToolCalls(calls)

\* C11 (amended): a generation in which the provider fails is not retried:
\* the failing invocation is the last of the turn, the only failing one, and
\* get_response ends with the failure at once.
C11_NotRetried ==
    /\ FailedToolCalls(calls) # {} => raised
    /\ raised =>
           /\ pc = "idle"
           /\ FailedToolCalls(calls) = {Len(calls)}

C11_Witness ==
    /\ raised
    /\ ToolRounds = 2
    /\ TrueHeartbeat(calls[1].out)
    /\ FailedToolCalls(calls) = {2}

\* C13: no number of rounds stops the chain: whenever the loop holds a result
\* with request_heartbeat = true, the iteration cannot leave the loop by its
\* break or its plain-text branch, whatever the number of rounds so far, and
\* the next generation is taken as long as the explored log has room for it.
C13_NoStepCap ==
    (pc = "loop" /\ TrueHeartbeat(result)) =>
        /\ ~ENABLED LoopBreak
        /\ ~ENABLED LoopText
        /\ Len(log) + 2 <= MaxLog => ENABLED (\E o \in ToolOutputs : LoopHeartbeat(o))

C13_Witness ==
    /\ pc = "loop"
    /\ ToolRounds = 4
    /\ \A i \in ToolCalls(calls) : i # LastToolCall => TrueHeartbeat(calls[i].out)


-----------------------------------------------------------------------------
(* What reaches the user, and through which sink *)

ToolValues ==
    {ReturnValue(fn) : fn \in ToolNames} \cup {ErrorValue(fn) : fn \in ToolNames}
        \cup {MessageModeActivated}

DeliveredProse == {i \in FreeCalls(calls) : calls[i].out.kind = "text"}

\* C14: return values and errors of tools never reach send_message_to_user.
\* Every message sent in a turn is the prose of one nested generation of
\* activate_message_mode that returned, there is one send per such generation,
\* and a tool value found in the turn's events is a FunctionMessage event.
C14_ToolValuesNotSent ==
    /\ Len(sent) = Cardinality(DeliveredProse)
    /\ \A k \in DOMAIN sent :
           /\ sent[k] \notin ToolValues
           /\ \E i \in DeliveredProse : sent[k] = calls[i].out.text
    /\ \A p \in TurnPositions :
           log[p].content \in ToolValues => log[p].type = "FunctionMessage"

\* A turn in which a tool failed, the model went on by heartbeat, and message
\* mode then delivered its prose: the error is in the EventLog only.
C14_Witness ==
    /\ pc = "idle" /\ ~raised /\ ToolRounds = 2
    /\ calls[1].out.kind = "call" /\ calls[1].out.error
    /\ calls[1].out.function = "archival_memory_insert"
    /\ \E p \in TurnPositions :
           log[p] = Event("FunctionMessage", ErrorValue("archival_memory_insert"))
    /\ sent = <<Prose>>

\* C15: each call of send_message_to_user delivers to exactly one sink, the
\* callback when one was supplied at construction and the console otherwise.
C15_ExactlyOneSink ==
    IF object.send_message_to_user_callback # None
    THEN callback_calls = sent /\ console = <<>>
    ELSE console = sent /\ callback_calls = <<>>

C15_Witness ==
    /\ args.send_message_to_user_callback = "callback"
    /\ sent = <<Prose>> /\ callback_calls = <<Prose>> /\ console = <<>>

-----------------------------------------------------------------------------
(* The window and the formatter flag of each provider invocation *)

\* C16: the window handed to each provider invocation of a turn is the
\* EventLog as it stands at that moment: the first one ends with the turn's
\* UserMessage, every later one ends with the AgentMessage and the
\* FunctionMessage of the round before it.
C16_WindowFresh ==
    \A i \in DOMAIN calls :
        /\ calls[i].window = build_event_memory_context(SubSeq(log, 1, calls[i].at))
        /\ i = 1 =>
               /\ calls[i].at = turnStart + 1
               /\ calls[i].window[calls[i].at].role = "user"
        /\ i > 1 =>
               /\ calls[i].at = calls[i - 1].at + 2
               /\ calls[i].window[calls[i].at - 1] =
                      [role |-> "assistant", content |-> RawOf(calls[i - 1].out)]
               /\ calls[i].window[calls[i].at].role = "function"

\* A heartbeat re-generation followed by the nested generation of message mode.
C16_Witness ==
    /\ Len(calls) = 3
    /\ calls[2].mode = "tool" /\ calls[3].mode = "free"
    /\ calls[3].window[calls[3].at].content = MessageModeActivated

\* C17: every tool-constrained generation runs with USE_FUNCTION_CALL_END
\* true, every nested generation of message mode with it false, and no
\* tool-constrained generation follows a nested one in the same turn.
C17_FlagPerMode ==
    /\ \A i \in ToolCalls(calls) : calls[i].flag = TRUE
    /\ \A i \in FreeCalls(calls) : calls[i].flag = FALSE
    /\ \A i \in FreeCalls(calls), j \in ToolCalls(calls) : j < i

\* The turn after one that ended in message mode: the flag was false when the
\* turn began and the first generation saw it true.
C17_Witness ==
    /\ turns = 2 /\ turnStart > 0
    /\ log[turnStart] = Event("AgentMessage", Prose)
    /\ calls # <<>> /\ calls[1].mode = "tool" /\ calls[1].flag = TRUE

Yielded == pc = "idle" /\ ~raised /\ turns > 0

\* C18: a turn that yields after N tool dispatches has gained exactly N
\* FunctionMessage events, the one of each dispatch two events after the
\* window it was generated from: "Message mode activated." for
\* activate_message_mode, the return value for every other tool.
C18_OneEventPerDispatch ==
    Yielded =>
        /\ Cardinality({p \in TurnPositions : log[p].type = "FunctionMessage"}) = ToolRounds
        /\ \A i \in ToolCalls(calls) :
               /\ calls[i].out.kind = "call"
               /\ log[calls[i].at + 2] =
                      Event("FunctionMessage",
                            IF calls[i].out.function = MessageModeTool
                            THEN MessageModeActivated
                            ELSE calls[i].out.return_value)

\* Two dispatches, the second one activate_message_mode.
C18_Witness ==
    /\ Yielded /\ ToolRounds = 2
    /\ calls[1].out.function = "archival_memory_insert"
    /\ calls[2].out.function = MessageModeTool
    /\ sent = <<Prose>>


-----------------------------------------------------------------------------
(* Construction *)

\* The pairings the constructor's messages call wrong.
IncompatiblePairing(llm, gs) ==
    \/ llm = "LlamaCppEndpointSettings" /\ gs = "LlamaLLMGenerationSettings"
    \/ llm \in {"Llama", "LlamaLLMSettings"} /\ gs = "LlamaCppGenerationSettings"
    \/ llm = "OpenAIEndpointSettings" /\ gs # "OpenAIGenerationSettings"

\* The settings made for the provider: the ones the constructor itself
\* chooses for it by default.
CompatiblePairing(llm, gs) == gs = DefaultSettings(llm)

NothingCreated ==
    /\ ~object.function_tool_registry
    /\ object.core_memory = None
    /\ object.event_memory = None
    /\ ~object.retrieval_memory

\* C12: constructing the agent with an incompatible pairing raises, and no
\* tool registry and no memory store has been created when it does.
C12_IncompatibleRaises ==
    (pc # "new" /\ IncompatiblePairing(args.llama_llm, EffectiveSettings(args))) =>
        /\ object.status = "raised"
        /\ NothingCreated

C12_Witness ==
    /\ pc = "failed"
    /\ args.llama_llm = "OpenAIEndpointSettings"
    /\ args.llama_generation_settings = "LlamaCppGenerationSettings"
    /\ args.core_memory_file # None
    /\ object.status = "raised"

\* C19: constructing the agent with a compatible pairing never raises; for a
\* provider of any type the default settings pass the three checks.
C19_CompatibleBuilds ==
    (pc # "new" /\ CompatiblePairing(args.llama_llm, EffectiveSettings(args))) =>
        object.status = "built"


-----------------------------------------------------------------------------
(* The prompt ending *)

\* C20, as stated: with USE_FUNCTION_CALL_END true the prompt ends with the
\* function-call start marker and the role is "assistant".
C20_EndsWithMarker ==
    (pc = "formatted" /\ formatter.USE_FUNCTION_CALL_END) =>
        /\ endswith(formatted.prompt, formatter.FUNCTION_CALL_PROMPT_START)
        /\ formatted.role = "assistant"

\* C20: with USE_FUNCTION_CALL_END true, for every message list the prompt
\* ends with the function-call start marker, stripped of the whitespace
\* around it when STRIP_PROMPT is true, and the role is "assistant".
C20_EndsWithStrippedMarker ==
    (pc = "formatted" /\ formatter.USE_FUNCTION_CALL_END) =>
        /\ endswith(formatted.prompt,
                    IF formatter.STRIP_PROMPT
                    THEN strip(formatter.FUNCTION_CALL_PROMPT_START)
                    ELSE formatter.FUNCTION_CALL_PROMPT_START)
        /\ formatter.STRIP_PROMPT =>
               formatted.prompt # <<>> /\ formatted.prompt[Len(formatted.prompt)] \notin Whitespace
        /\ formatted.role = "assistant"

\* A list that ends in an assistant message, formatted by a stripping
\* formatter whose marker ends with a line end.
C20_Witness ==
    /\ pc = "formatted" /\ formatter.USE_FUNCTION_CALL_END /\ formatter.STRIP_PROMPT
    /\ formatter.FUNCTION_CALL_PROMPT_START = <<"C", "\n">>
    /\ message_list # <<>> /\ message_list[Len(message_list)].role = "assistant"
    /\ formatted.role = "assistant"


\* The marker as the ending appends it.
Appended(f, marker) == IF f.STRIP_PROMPT THEN strip(marker) ELSE marker

LastMessageRole ==
    IF message_list = <<>> THEN None ELSE message_list[Len(message_list)].role

AssistantTurn == LastMessageRole \in {"system", "user", "function"}

\* C21, as stated: with USE_FUNCTION_CALL_END false the prompt ends with the
\* assistant start marker and the role is "assistant" exactly when the last
\* message is a system, user or function message; otherwise it ends with the
\* user start marker and the role is "user".
C21_RoleAndMarker ==
    (pc = "formatted" /\ ~formatter.USE_FUNCTION_CALL_END) =>
        IF AssistantTurn
        THEN /\ formatted.role = "assistant"
             /\ endswith(formatted.prompt, formatter.ASSISTANT_PROMPT_START)
        ELSE /\ formatted.role = "user"
             /\ endswith(formatted.prompt, formatter.USER_PROMPT_START)

\* C21: with USE_FUNCTION_CALL_END false the role is "assistant" exactly when
\* the last message is a system, user or function message, and "user" when
\* it is an assistant message or the list is empty; the prompt ends with the
\* start marker of that role, stripped of the whitespace around it when
\* STRIP_PROMPT is true.
C21_RoleAndStrippedMarker ==
    (pc = "formatted" /\ ~formatter.USE_FUNCTION_CALL_END) =>
        /\ formatted.role = "assistant" <=> AssistantTurn
        /\ formatted.role = "user" <=> ~AssistantTurn
        /\ endswith(formatted.prompt,
                    Appended(formatter,
                             IF AssistantTurn THEN formatter.ASSISTANT_PROMPT_START
                             ELSE formatter.USER_PROMPT_START))

\* A list that ends in a function message kept in the function role.
C21_Witness ==
    /\ pc = "formatted" /\ ~formatter.USE_FUNCTION_CALL_END
    /\ ~formatter.USE_USER_ROLE_FUNCTION_CALL_RESULT
    /\ Len(message_list) = 2 /\ message_list[1].role = "assistant"
    /\ LastMessageRole = "function"
    /\ formatted.role = "assistant"


-----------------------------------------------------------------------------
(* The rendering of the messages *)

\* The start and end a message may stand between: for an assistant message
\* the pair the test on its stripped content selects, for any other message
\* any pair of the formatter (a user message may stand without its start).
Wrappers(f, m) ==
    IF m.role = "assistant"
    THEN IF startswith(strip(m.content), "{")
         THEN {<<f.FUNCTION_CALL_PROMPT_START, f.FUNCTION_CALL_PROMPT_END>>}
         ELSE {<<f.ASSISTANT_PROMPT_START, f.ASSISTANT_PROMPT_END>>}
    ELSE {<<f.SYS_PROMPT_START, f.SYS_PROMPT_END>>,
          <<f.USER_PROMPT_START, f.USER_PROMPT_END>>,
          <<<<>>, f.USER_PROMPT_END>>,
          <<f.FUNCTION_PROMPT_START, f.FUNCTION_PROMPT_END>>}

\* The content as it may be shown: as given, or stripped for an assistant.
Shown(m) == IF m.role = "assistant" THEN {m.content, strip(m.content)} ELSE {m.content}

\* Every text that shows the first n messages once each, in list order.
RECURSIVE Renderings(_, _, _)
Renderings(f, ms, n) ==
    IF n = 0 THEN {<<>>}
    ELSE {r \o w[1] \o c \o w[2] :
             r \in Renderings(f, ms, n - 1), w \in Wrappers(f, ms[n]), c \in Shown(ms[n])}

RECURSIVE Repeat(_, _)
Repeat(str, k) == IF k = 0 THEN <<>> ELSE str \o Repeat(str, k - 1)

Endings(f) ==
    {Appended(f, marker) :
        marker \in {f.FUNCTION_CALL_PROMPT_START, f.ASSISTANT_PROMPT_START,
                    f.USER_PROMPT_START}}

\* C22: the prompt shows each message of the list exactly once and in list
\* order, an assistant message between the function-call start and end
\* markers exactly when its stripped content begins with "{" and between the
\* assistant start and end markers otherwise; around the messages stand only
\* the user start markers put in front for system messages, the pre-prompt
\* and the ending.
C22_EachMessageOnceInOrder ==
    pc = "formatted" =>
        \E k \in 0..Len(message_list),
           body \in Renderings(formatter, message_list, Len(message_list)),
           ending \in Endings(formatter) :
            formatted.prompt =
                Repeat(formatter.USER_PROMPT_START, k) \o formatter.PRE_PROMPT
                    \o body \o ending

\* An assistant message whose content begins with "{" only once stripped,
\* formatted without stripping, followed by an assistant message of prose.
C22_Witness ==
    /\ pc = "formatted" /\ ~formatter.STRIP_PROMPT
    /\ Len(message_list) = 2
    /\ message_list[1] = [role |-> "assistant", content |-> <<" ", "{", "}", "\n">>]
    /\ message_list[2] = [role |-> "assistant", content |-> <<"h", "i">>]
    /\ Len(formatted.prompt) > 6


-----------------------------------------------------------------------------
(* The configuration round trip *)

\* C23: loading what as_dict returned, or the file save wrote, succeeds and
\* gives a formatter whose configuration fields all equal those of the
\* formatter that was saved.
C23_RoundTrips ==
    pc = "loaded" =>
        /\ loaded.status = "ok"
        /\ \A k \in Parameters : loaded.formatter[k] = formatter[k]

====
